---- MODULE Spec2Model ----
(***************************************************************************)
(* The GrpcKind external client (internal/controller/grpckind/grpckind.go) *)
(* as a state machine: Connect, Observe, Create, Update and Delete acting  *)
(* on a GrpcKind custom resource and on the remote list service.           *)
(***************************************************************************)
EXTENDS Integers, Sequences, FiniteSets, TLC

\* ------------------------------------------------------------- bounds
\* Longest item sequence of a desired record or of a remote list.
MaxLen == 2
\* Connections counted by Connect; the count saturates at this bound.
MaxConns == 2

\* ------------------------------------------------------------- values
Names == {"a", "b"}
Items == {1, 2}
Statuses == {"SUCCESS", "PENDING"}

\* Sequences of items of length 0..MaxLen.
ItemSeqs == UNION {[1..n -> Items] : n \in 0..MaxLen}

\* A Go slice []int32: nil, or a (possibly zero-length) list.
NilSlice == [isNil |-> TRUE, elems |-> <<>>]
MkSlice(s) == [isNil |-> FALSE, elems |-> s]
Slices == {NilSlice} \cup {MkSlice(s) : s \in ItemSeqs}

\* A Go *string: nil, or a pointer to a string.
NilString == [isNil |-> TRUE, val |-> ""]
StringPtr(s) == [isNil |-> FALSE, val |-> s]
Descriptions == {NilString, StringPtr(""), StringPtr("d")}

\* A Go error: nil, or a message.
NoErr == [isNil |-> TRUE, msg |-> ""]
Err(m) == [isNil |-> FALSE, msg |-> m]

errNotGrpcKind == "managed resource is not a GrpcKind custom resource"
errTrackPCUsage == "cannot track ProviderConfig usage"
errGetPC == "cannot get ProviderConfig"
errGetCreds == "cannot get credentials"

\* strings.Contains(s, sub)
Contains(s, sub) ==
    \E i \in 1..(Len(s) - Len(sub) + 1) : SubSeq(s, i, i + Len(sub) - 1) = sub

\* A comparison that ignores the order of the items.
DeepEqualUnordered(a, b) ==
    /\ a.isNil = b.isNil
    /\ Len(a.elems) = Len(b.elems)
    /\ {a.elems[i] : i \in 1..Len(a.elems)} = {b.elems[i] : i \in 1..Len(b.elems)}

\* reflect.DeepEqual on two []int32: both nil or both non-nil, the same
\* length, and equal elements at every index.
DeepEqual(a, b) ==
    /\ a.isNil = b.isNil
    /\ Len(a.elems) = Len(b.elems)
    /\ \A i \in 1..Len(a.elems) : a.elems[i] = b.elems[i]

\* GrpcKindParameters
Parameters == [name : Names, description : Descriptions, listItems : Slices]

\* The managed resources that are GrpcKind objects, and one that is not.
Res == {"r1", "r2"}
OtherKind == "x"

VARIABLES
    cr,        \* the GrpcKind resources: spec.forProvider, status.atProvider, Ready
    remote,    \* the remote list service: per name, the list it holds
    conns,     \* connections dialed by Connect and never closed
    last,      \* the latest call of the external client and what it returned
    pc,        \* the managed reconciler's position in each resource's cycle
    observed,  \* the observation the reconciler holds in each resource's cycle
    deleted,   \* resources whose deletion was requested
    calls      \* the remote calls issued in each resource's current cycle

vars == <<cr, remote, conns, last, pc, observed, deleted, calls>>

IsGrpcKind(mg) == mg \in DOMAIN cr

\* ------------------------------------------------- the remote list service
\* A response message (GetListResp, CreateListResp, ...), or a nil pointer.
NilResp == [isNil |-> TRUE, status |-> "", items |-> NilSlice]
Resp(s, it) == [isNil |-> FALSE, status |-> s, items |-> it]

NoList == [exists |-> FALSE, description |-> "", items |-> <<>>]
List(d, s) == [exists |-> TRUE, description |-> d, items |-> s]

NotFoundMsg == "list does not exist"
ExistsMsg == "list already exists"
CanceledMsg == "context canceled"
\* Messages of the errors a call can fail with whatever the remote state is.
FaultMsgs == {"host does not exist", "unavailable"}

\* A repeated int32 field as the client hands it over: a non-empty list as
\* is; an empty one as a nil slice (the wire decoder) or as a zero-length
\* slice (any other implementation of the client interface).
Decoded(s) == IF s = <<>> THEN {NilSlice, MkSlice(<<>>)} ELSE {MkSlice(s)}

\* What one remote call can come to: a response or an error (never both),
\* and the remote state it leaves.
Fail(m, rem) == [resp |-> NilResp, err |-> Err(m), remote |-> rem]
Faults(rem) == {Fail(m, rem) : m \in FaultMsgs}

GetList(rem, ctx, name) ==
    IF ctx = "cancelled" THEN {Fail(CanceledMsg, rem)}
    ELSE Faults(rem) \cup
         (IF rem[name].exists
          THEN {[resp |-> Resp(s, it), err |-> NoErr, remote |-> rem] :
                    s \in Statuses, it \in Decoded(rem[name].items)}
          ELSE {Fail(NotFoundMsg, rem)})

CreateList(rem, ctx, name, description) ==
    IF ctx = "cancelled" THEN {Fail(CanceledMsg, rem)}
    ELSE Faults(rem) \cup
         (IF rem[name].exists
          THEN {Fail(ExistsMsg, rem)}
          ELSE {[resp |-> Resp(s, NilSlice), err |-> NoErr,
                 remote |-> [rem EXCEPT ![name] = List(description, <<>>)]] :
                    s \in Statuses})

UpdateListItems(rem, ctx, name, newItems) ==
    IF ctx = "cancelled" THEN {Fail(CanceledMsg, rem)}
    ELSE Faults(rem) \cup
         (IF rem[name].exists
          THEN {[resp |-> Resp("SUCCESS", NilSlice), err |-> NoErr,
                 remote |-> [rem EXCEPT ![name].items = newItems.elems]]}
          ELSE {Fail(NotFoundMsg, rem)})

DeleteList(rem, ctx, name) ==
    IF ctx = "cancelled" THEN {Fail(CanceledMsg, rem)}
    ELSE Faults(rem) \cup
         (IF rem[name].exists
          THEN {[resp |-> Resp("SUCCESS", NilSlice), err |-> NoErr,
                 remote |-> [rem EXCEPT ![name] = NoList]]}
          ELSE {Fail(NotFoundMsg, rem)})

\* ------------------------------------------------- requests and returns
NoReq == <<>>
GetListReq(n) ==
    [rpc |-> "GetList", name |-> n, description |-> "", items |-> NilSlice]
CreateListReq(n, d) ==
    [rpc |-> "CreateList", name |-> n, description |-> d, items |-> NilSlice]
UpdateListItemsReq(n, it) ==
    [rpc |-> "UpdateListItems", name |-> n, description |-> "", items |-> it]
DeleteListReq(n) ==
    [rpc |-> "DeleteList", name |-> n, description |-> "", items |-> NilSlice]

\* managed.ExternalObservation (ConnectionDetails is always empty).
ExternalObservation(e, u) == [ResourceExists |-> e, ResourceUpToDate |-> u]
\* What a method hands back: its result, its error, or a panic instead.
Return(o, e) == [obs |-> o, err |-> e, panicked |-> FALSE]
Panic == [obs |-> ExternalObservation(FALSE, FALSE), err |-> NoErr,
          panicked |-> TRUE]

NoCR == [name |-> "", description |-> NilString, listItems |-> NilSlice,
         status |-> "", available |-> FALSE]
NoOut == [resp |-> NilResp, err |-> NoErr]
Called(op, mg, ctx, before, reqs, out, ret) ==
    [op |-> op, mg |-> mg, ctx |-> ctx, before |-> before, reqs |-> reqs,
     out |-> [resp |-> out.resp, err |-> out.err], ret |-> ret]
NotGrpcKind(op, mg, ctx) ==
    Called(op, mg, ctx, NoCR, NoReq, NoOut,
           Return(ExternalObservation(FALSE, FALSE), Err(errNotGrpcKind)))

Ctxs == {"live", "cancelled"}
\* context.Background(): never cancelled.
Background == "live"
Objects == DOMAIN cr \cup {OtherKind}

\* ------------------------------------------------- connector.Connect
\* The steps of Connect that can fail before the service is dialed.
ConnectSteps == {"ok", "track", "getpc", "creds"}

\* newListService: every call dials a connection that is never closed.
newListService(n) == IF n < MaxConns THEN n + 1 ELSE n

ConnectReturn(step) ==
    CASE step = "track" -> Err(errTrackPCUsage)
      [] step = "getpc" -> Err(errGetPC)
      [] step = "creds" -> Err(errGetCreds)
      [] OTHER -> NoErr

\* A Connect that does not check the kind of the resource it is handed.
ConnectUnchecked(mg, step) ==
    /\ conns' = IF step = "ok" THEN newListService(conns) ELSE conns
    /\ last' = Called("Connect", mg, "live",
                      IF mg \in DOMAIN cr THEN cr[mg] ELSE NoCR, NoReq, NoOut,
                      Return(ExternalObservation(FALSE, FALSE),
                             ConnectReturn(step)))
    /\ UNCHANGED <<cr, remote>>

Connect(mg, step) ==
    IF ~IsGrpcKind(mg)
    THEN /\ last' = NotGrpcKind("Connect", mg, "live")
         /\ UNCHANGED <<cr, remote, conns>>
    ELSE /\ conns' = IF step = "ok" THEN newListService(conns) ELSE conns
         /\ last' = Called("Connect", mg, "live", cr[mg], NoReq, NoOut,
                           Return(ExternalObservation(FALSE, FALSE),
                                  ConnectReturn(step)))
         /\ UNCHANGED <<cr, remote>>

\* ------------------------------------------------- external.Observe
\* An Observe that takes every failed lookup for an existing, current list.
ObserveReturnNoAbsent(c, out) ==
    IF ~out.resp.isNil /\ ~DeepEqual(out.resp.items, c.listItems)
    THEN Return(ExternalObservation(TRUE, FALSE), NoErr)
    ELSE Return(ExternalObservation(TRUE, TRUE), NoErr)

\* The observation Observe returns for the outcome of its GetList call.
ObserveReturn(c, out) ==
    IF ~out.err.isNil /\ Contains(out.err.msg, "does not exist")
    THEN Return(ExternalObservation(FALSE, TRUE), NoErr)
    ELSE IF ~out.resp.isNil /\ ~DeepEqual(out.resp.items, c.listItems)
         THEN Return(ExternalObservation(TRUE, FALSE), NoErr)
         ELSE Return(ExternalObservation(TRUE, TRUE), NoErr)

\* An Observe that clears the ready mark when the status is not "SUCCESS".
ObserveConditionsCleared(c, out) ==
    [c EXCEPT !.available = ~out.resp.isNil /\ out.resp.status = "SUCCESS"]

\* cr.Status.SetConditions(xpv1.Available()), past the early return.
ObserveConditions(c, out) ==
    IF ~out.err.isNil /\ Contains(out.err.msg, "does not exist")
    THEN c
    ELSE IF ~out.resp.isNil /\ out.resp.status = "SUCCESS"
         THEN [c EXCEPT !.available = TRUE]
         ELSE c

ObserveRequest(c) == GetListReq(c.name)

\* GetList is called with the context Observe was given.
ObserveContext(ctx) == ctx

Observe(mg, ctx) ==
    IF ~IsGrpcKind(mg)
    THEN /\ last' = NotGrpcKind("Observe", mg, ctx)
         /\ UNCHANGED <<cr, remote, conns>>
    ELSE \E out \in GetList(remote, ObserveContext(ctx),
                           ObserveRequest(cr[mg]).name) :
            /\ remote' = out.remote
            /\ cr' = [cr EXCEPT ![mg] = ObserveConditions(@, out)]
            /\ last' = Called("Observe", mg, ctx, cr[mg],
                              <<ObserveRequest(cr[mg])>>, out,
                              ObserveReturn(cr[mg], out))
            /\ UNCHANGED conns

\* ------------------------------------------------- external.Create
\* A Create that sends the description the record carries.
CreateDescriptionKept(c) == IF c.description.isNil THEN "" ELSE c.description.val

\* description := ""; a description the record carries is overwritten by it.
CreateDescription(c) == ""

CreateClear(c) ==
    IF ~c.description.isNil
    THEN [c EXCEPT !.description = StringPtr(CreateDescription(c))]
    ELSE c

CreateRequest(c) == CreateListReq(c.name, CreateDescription(c))

\* A Create that hands the context it was given to CreateList.
CreateContextCaller(ctx) == ctx

\* CreateList is called with context.Background().
CreateContext(ctx) == Background

\* Whether Create returns early, swallowing the error of CreateList.
CreateSwallows(out) ==
    ~out.err.isNil /\ ~Contains(out.err.msg, "does not exist")

\* A Create that hands the error of CreateList to its caller.
CreateReturnSurfaced(out) ==
    IF CreateSwallows(out)
    THEN Return(ExternalObservation(FALSE, FALSE), out.err)
    ELSE IF out.resp.isNil
         THEN Panic
         ELSE Return(ExternalObservation(FALSE, FALSE), NoErr)

\* cr.Status.AtProvider.Status = createResp.Status dereferences createResp.
CreateReturn(out) ==
    IF CreateSwallows(out)
    THEN Return(ExternalObservation(FALSE, FALSE), NoErr)
    ELSE IF out.resp.isNil
         THEN Panic
         ELSE Return(ExternalObservation(FALSE, FALSE), NoErr)

\* A Create that records a status whatever CreateList came to: the zero
\* value when there is no response.
CreateStatusAlways(c, out) ==
    [c EXCEPT !.status = IF out.resp.isNil THEN "" ELSE out.resp.status]

CreateStatus(c, out) ==
    IF CreateSwallows(out) \/ out.resp.isNil
    THEN c
    ELSE [c EXCEPT !.status = out.resp.status]

Create(mg, ctx) ==
    IF ~IsGrpcKind(mg)
    THEN /\ last' = NotGrpcKind("Create", mg, ctx)
         /\ UNCHANGED <<cr, remote, conns>>
    ELSE LET req == CreateRequest(cr[mg]) IN
         \E out \in CreateList(remote, CreateContext(ctx), req.name,
                             req.description) :
            /\ remote' = out.remote
            /\ cr' = [cr EXCEPT ![mg] = CreateStatus(CreateClear(@), out)]
            /\ last' = Called("Create", mg, ctx, cr[mg], <<req>>, out,
                              CreateReturn(out))
            /\ UNCHANGED conns

\* ------------------------------------------------- external.Update
\* An Update that sends only the items the remote list does not hold yet.
UpdateRequestDiff(c) ==
    LET have == remote[c.name].items
        missing(x) == x \notin {have[i] : i \in 1..Len(have)}
    IN UpdateListItemsReq(c.name,
           [c.listItems EXCEPT !.elems = SelectSeq(@, missing)])

\* An Update that issues the request of Create.
UpdateRequestAsCreate(c) == CreateListReq(c.name, "")

UpdateRequest(c) == UpdateListItemsReq(c.name, c.listItems)

\* UpdateListItems is called with context.Background().
UpdateContext(ctx) == Background

UpdateReturn(out) ==
    IF ~out.err.isNil
    THEN Return(ExternalObservation(FALSE, FALSE), out.err)
    ELSE Return(ExternalObservation(FALSE, FALSE), NoErr)

Update(mg, ctx) ==
    IF ~IsGrpcKind(mg)
    THEN /\ last' = NotGrpcKind("Update", mg, ctx)
         /\ UNCHANGED <<cr, remote, conns>>
    ELSE LET req == UpdateRequest(cr[mg]) IN
         \E out \in UpdateListItems(remote, UpdateContext(ctx), req.name,
                                  req.items) :
            /\ remote' = out.remote
            /\ last' = Called("Update", mg, ctx, cr[mg], <<req>>, out,
                              UpdateReturn(out))
            /\ UNCHANGED <<cr, conns>>

\* ------------------------------------------------- external.Delete
\* A Delete addressed to another list than the record's.
DeleteRequestOther(c) == DeleteListReq(CHOOSE n \in Names : n # c.name)

DeleteRequest(c) == DeleteListReq(c.name)

\* DeleteList is called with context.Background().
DeleteContext(ctx) == Background

\* A Delete that drops the error of DeleteList.
DeleteReturnDropped(out) == Return(ExternalObservation(FALSE, FALSE), NoErr)

DeleteReturn(out) ==
    IF ~out.err.isNil
    THEN Return(ExternalObservation(FALSE, FALSE), out.err)
    ELSE Return(ExternalObservation(FALSE, FALSE), NoErr)

Delete(mg, ctx) ==
    IF ~IsGrpcKind(mg)
    THEN /\ last' = NotGrpcKind("Delete", mg, ctx)
         /\ UNCHANGED <<cr, remote, conns>>
    ELSE LET req == DeleteRequest(cr[mg]) IN
         \E out \in DeleteList(remote, DeleteContext(ctx), req.name) :
            /\ remote' = out.remote
            /\ last' = Called("Delete", mg, ctx, cr[mg], <<req>>, out,
                              DeleteReturn(out))
            /\ UNCHANGED <<cr, conns>>

\* ------------------------------------------------- the client, called freely
NoCall == Called("none", OtherKind, "live", NoCR, NoReq, NoOut,
                 Return(ExternalObservation(FALSE, FALSE), NoErr))

\* A resource as it is admitted: no observed status, no condition.
NewCR(p) == [name |-> p.name, description |-> p.description,
             listItems |-> p.listItems, status |-> "", available |-> FALSE]

\* The lists the service may hold at the start: one under each name a
\* resource targets, with any items; none under the other names.
InitRemotes(c) ==
    {rem \in [Names -> {NoList} \cup {List("", s) : s \in ItemSeqs}] :
        \A n \in Names : rem[n].exists => \E r \in DOMAIN c : c[r].name = n}

Init ==
    /\ \E p \in Parameters : p.name = "a" /\ cr = [r \in {"r1"} |-> NewCR(p)]
    /\ remote \in InitRemotes(cr)
    /\ conns = 0
    /\ last = NoCall
    /\ pc = [r \in DOMAIN cr |-> "idle"]
    /\ observed = [r \in DOMAIN cr |-> ExternalObservation(FALSE, FALSE)]
    /\ deleted = {}
    /\ calls = [r \in DOMAIN cr |-> <<>>]

\* Any caller may call any method on any object, in any order.
CallConnect ==
    /\ \E mg \in Objects, step \in ConnectSteps : Connect(mg, step)
    /\ UNCHANGED <<pc, observed, deleted, calls>>

CallObserve ==
    /\ \E mg \in Objects, ctx \in Ctxs : Observe(mg, ctx)
    /\ UNCHANGED <<pc, observed, deleted, calls>>

CallCreate ==
    /\ \E mg \in Objects, ctx \in Ctxs : Create(mg, ctx)
    /\ UNCHANGED <<pc, observed, deleted, calls>>

CallUpdate ==
    /\ \E mg \in Objects, ctx \in Ctxs : Update(mg, ctx)
    /\ UNCHANGED <<pc, observed, deleted, calls>>

CallDelete ==
    /\ \E mg \in Objects, ctx \in Ctxs : Delete(mg, ctx)
    /\ UNCHANGED <<pc, observed, deleted, calls>>

Next ==
    \/ CallConnect
    \/ CallObserve
    \/ CallCreate
    \/ CallUpdate
    \/ CallDelete

Spec == Init /\ [][Next]_vars

\* ------------------------------------------------- the managed reconciler
\* One reconcile cycle of a resource: Connect, Observe, then the one
\* method the observation calls for. A cycle that fails ends there; the
\* next one starts from Connect again.
Failed(ret) == ret.panicked \/ ~ret.err.isNil

ReconcileConnect(r) ==
    /\ pc[r] = "idle"
    /\ \E step \in ConnectSteps : Connect(r, step)
    /\ pc' = [pc EXCEPT ![r] = IF Failed(last'.ret) THEN "idle" ELSE "connected"]
    /\ calls' = [calls EXCEPT ![r] = <<>>]
    /\ UNCHANGED <<observed, deleted>>

ReconcileObserve(r) ==
    /\ pc[r] = "connected"
    /\ \E ctx \in Ctxs : Observe(r, ctx)
    /\ pc' = [pc EXCEPT ![r] = IF Failed(last'.ret) THEN "idle" ELSE "observed"]
    /\ observed' = [observed EXCEPT ![r] = last'.ret.obs]
    /\ calls' = [calls EXCEPT ![r] = @ \o last'.reqs]
    /\ UNCHANGED deleted

ReconcileDelete(r) ==
    /\ pc[r] = "observed"
    /\ r \in deleted
    /\ observed[r].ResourceExists
    /\ \E ctx \in Ctxs : Delete(r, ctx)
    /\ pc' = [pc EXCEPT ![r] = "idle"]
    /\ calls' = [calls EXCEPT ![r] = @ \o last'.reqs]
    /\ UNCHANGED <<observed, deleted>>

\* The deleted resource's external resource is gone: the finalizer is
\* removed and the resource is reconciled no more.
ReconcileGone(r) ==
    /\ pc[r] = "observed"
    /\ r \in deleted
    /\ ~observed[r].ResourceExists
    /\ pc' = [pc EXCEPT ![r] = "gone"]
    /\ UNCHANGED <<cr, remote, conns, last, observed, deleted, calls>>

ReconcileCreate(r) ==
    /\ pc[r] = "observed"
    /\ r \notin deleted
    /\ ~observed[r].ResourceExists
    /\ \E ctx \in Ctxs : Create(r, ctx)
    /\ pc' = [pc EXCEPT ![r] = "idle"]
    /\ calls' = [calls EXCEPT ![r] = @ \o last'.reqs]
    /\ UNCHANGED <<observed, deleted>>

ReconcileUpdate(r) ==
    /\ pc[r] = "observed"
    /\ r \notin deleted
    /\ observed[r].ResourceExists
    /\ ~observed[r].ResourceUpToDate
    /\ \E ctx \in Ctxs : Update(r, ctx)
    /\ pc' = [pc EXCEPT ![r] = "idle"]
    /\ calls' = [calls EXCEPT ![r] = @ \o last'.reqs]
    /\ UNCHANGED <<observed, deleted>>

ReconcileUpToDate(r) ==
    /\ pc[r] = "observed"
    /\ r \notin deleted
    /\ observed[r].ResourceExists
    /\ observed[r].ResourceUpToDate
    /\ pc' = [pc EXCEPT ![r] = "idle"]
    /\ UNCHANGED <<cr, remote, conns, last, observed, deleted, calls>>

\* The user deletes the resource; the reconciler sees it from the next
\* cycle on.
RequestDelete(r) ==
    /\ pc[r] = "idle"
    /\ r \notin deleted
    /\ deleted' = deleted \cup {r}
    /\ UNCHANGED <<cr, remote, conns, last, pc, observed, calls>>

Connecting == \E r \in DOMAIN cr : ReconcileConnect(r)
Observing == \E r \in DOMAIN cr : ReconcileObserve(r)
Creating == \E r \in DOMAIN cr : ReconcileCreate(r)
Updating == \E r \in DOMAIN cr : ReconcileUpdate(r)
Resting == \E r \in DOMAIN cr : ReconcileUpToDate(r)
Deleting == \E r \in DOMAIN cr : ReconcileDelete(r)
Leaving == \E r \in DOMAIN cr : ReconcileGone(r)
Finalizing == \E r \in DOMAIN cr : RequestDelete(r)

Reconcile ==
    \/ Connecting
    \/ Observing
    \/ Creating
    \/ Updating
    \/ Resting
    \/ Deleting
    \/ Leaving
    \/ Finalizing

ReconcilerSpec == Init /\ [][Reconcile]_vars

\* ------------------------------------------------- cycles without failures
\* The remote call got the service's answer: a response, or the error the
\* service gives for a list that is missing or already there.
Answered(out) == out.err.isNil \/ out.err.msg \in {NotFoundMsg, ExistsMsg}

\* The latest call got its answer and returned normally.
Healthy == ~Failed(last.ret) /\ Answered(last.out)

SteadyConnecting == Connecting /\ Healthy'
SteadyObserving == Observing /\ Healthy'
SteadyCreating == Creating /\ Healthy'
SteadyUpdating == Updating /\ Healthy'

\* The cycles of resources that are neither changed nor deleted, every
\* call of which succeeds.
Steady ==
    \/ SteadyConnecting
    \/ SteadyObserving
    \/ SteadyCreating
    \/ SteadyUpdating
    \/ Resting

\* The reconciler is invoked again and again.
SteadySpec == Init /\ [][Steady]_vars /\ WF_vars(Steady)

\* ------------------------------------------------- two records, one name
\* Two resources with different desired items target the list "a", which
\* does not exist yet; r1 wants the single item 1 and r2 nothing, the item 2
\* or the items 2, 1; no description, no deletion.
PairInit ==
    /\ \E p1, p2 \in Parameters :
          /\ p1.name = "a" /\ p2.name = "a"
          /\ p1.description = NilString /\ p2.description = NilString
          /\ p1.listItems = MkSlice(<<1>>)
          /\ p2.listItems.elems \in {<<>>, <<2>>, <<2, 1>>}
          /\ cr = [r \in Res |-> IF r = "r1" THEN NewCR(p1) ELSE NewCR(p2)]
    /\ remote = [n \in Names |-> NoList]
    /\ conns = 0
    /\ last = NoCall
    /\ pc = [r \in DOMAIN cr |-> "idle"]
    /\ observed = [r \in DOMAIN cr |-> ExternalObservation(FALSE, FALSE)]
    /\ deleted = {}
    /\ calls = [r \in DOMAIN cr |-> <<>>]

\* The cycles of the resources, their steps interleaved in any order.
Interleave ==
    \/ Connecting
    \/ Observing
    \/ Creating
    \/ Updating
    \/ Resting

PairSpec == PairInit /\ [][Interleave]_vars

\* ------------------------------------------------- properties
\* The latest call was method op on a GrpcKind resource.
On(op) == last.op = op /\ IsGrpcKind(last.mg)
NotFoundClass(e) == ~e.isNil /\ Contains(e.msg, "does not exist")
Absent == ExternalObservation(FALSE, TRUE)
PresentStale == ExternalObservation(TRUE, FALSE)
PresentCurrent == ExternalObservation(TRUE, TRUE)

\* C1: when GetList fails with an error whose message contains "does not
\* exist", Observe returns ResourceExists = false and a nil error.
C1_ObserveAbsent ==
    (On("Observe") /\ NotFoundClass(last.out.err)) =>
        /\ ~last.ret.panicked
        /\ last.ret.obs.ResourceExists = FALSE
        /\ last.ret.err.isNil

C1_Witness ==
    /\ On("Observe")
    /\ ~remote[last.before.name].exists
    /\ last.out.err = Err(NotFoundMsg)
    /\ last.ret.obs.ResourceExists = FALSE

\* C2: when GetList returns the list and its item sequence differs from the
\* desired one (in length, in an element, or only in order), Observe
\* returns ResourceExists = true, ResourceUpToDate = false.
C2_ObserveStale ==
    (/\ On("Observe")
     /\ ~last.out.resp.isNil
     /\ last.out.resp.items.elems # last.before.listItems.elems) =>
        /\ last.ret.obs = PresentStale
        /\ last.ret.err.isNil

C2_Witness ==
    /\ On("Observe")
    /\ last.out.resp.items.elems = <<1, 2>>
    /\ last.before.listItems.elems = <<2, 1>>
    /\ last.ret.obs = PresentStale

\* C3: when GetList returns the list and its item sequence equals the
\* desired one element by element, an empty sequence being nil or of
\* length zero on either side, Observe returns ResourceExists = true,
\* ResourceUpToDate = true.
C3_ObserveCurrent ==
    (/\ On("Observe")
     /\ ~last.out.resp.isNil
     /\ last.out.resp.items.elems = last.before.listItems.elems) =>
        last.ret.obs = PresentCurrent

\* C4: when GetList fails with an error whose message does not contain
\* "does not exist", Observe returns a non-nil error.
C4_ObserveSurfacesError ==
    (On("Observe") /\ ~last.out.err.isNil /\ ~NotFoundClass(last.out.err)) =>
        ~last.ret.err.isNil

\* C5: the CreateList request of Create carries the record's name and an
\* empty description, whatever description the record carries.
C5_CreateEmptyDescription ==
    On("Create") =>
        last.reqs = <<CreateListReq(last.before.name, "")>>

C5_Witness ==
    /\ On("Create")
    /\ last.before.description = StringPtr("d")
    /\ Len(last.reqs) = 1
    /\ last.reqs[1].description = ""

\* C6: when CreateList fails with an error whose message does not contain
\* "does not exist", Create returns a nil error and does not panic.
C6_CreateSwallowsError ==
    (On("Create") /\ ~last.out.err.isNil /\ ~NotFoundClass(last.out.err)) =>
        /\ ~last.ret.panicked
        /\ last.ret.err.isNil

C6_Witness ==
    /\ On("Create")
    /\ last.out.err = Err("unavailable")
    /\ last.ret.err.isNil

\* C7: the UpdateListItems request of Update carries the record's name and
\* the whole desired item sequence, whatever items the remote list holds.
C7_UpdateSendsAll ==
    On("Update") =>
        last.reqs = <<UpdateListItemsReq(last.before.name,
                                         last.before.listItems)>>

\* The remote list holds <<1>>, the record wants <<1, 2>>, and the request
\* carries <<1, 2>> (the call failed, so the remote list is as it was).
C7_Witness ==
    /\ On("Update")
    /\ ~last.out.err.isNil
    /\ remote[last.before.name] = List("", <<1>>)
    /\ last.reqs[1].items = MkSlice(<<1, 2>>)

\* C8: Update and Delete return the error of their remote call as it is,
\* and a nil error when the call succeeded.
C8_UpdateDeletePropagate ==
    (On("Update") \/ On("Delete")) =>
        /\ ~last.ret.panicked
        /\ last.ret.err = last.out.err

C8_Witness ==
    /\ On("Delete")
    /\ last.out.err = Err("unavailable")
    /\ last.ret.err = Err("unavailable")

\* C9: handed a resource that is not a GrpcKind, Connect, Observe, Create,
\* Update and Delete return errNotGrpcKind, issue no remote call, and leave
\* the remote lists, the resources and the connections as they were.
C9_WrongKind ==
    /\ [](~IsGrpcKind(last.mg) /\ last.op # "none" =>
            /\ last.ret.err = Err(errNotGrpcKind)
            /\ last.reqs = NoReq)
    /\ [][~IsGrpcKind(last'.mg) =>
            /\ remote' = remote
            /\ cr' = cr
            /\ conns' = conns]_vars

C9_Witness ==
    /\ last.op = "Connect"
    /\ last.mg = OtherKind
    /\ last.ret.err = Err(errNotGrpcKind)
    /\ remote["a"].exists

\* C10: in every reconcile cycle the first remote call is the GetList of
\* Observe; CreateList is issued only in a cycle whose Observe returned
\* Absent, UpdateListItems only in one whose Observe returned PresentStale,
\* neither in one whose Observe returned PresentCurrent, and DeleteList
\* only for a resource whose deletion was requested.
Rpcs(log) == {log[i].rpc : i \in 1..Len(log)}

C10_CycleOrder ==
    \A r \in DOMAIN cr :
        /\ calls[r] # <<>> => calls[r][1].rpc = "GetList"
        /\ "CreateList" \in Rpcs(calls[r]) => observed[r] = Absent
        /\ "UpdateListItems" \in Rpcs(calls[r]) => observed[r] = PresentStale
        /\ observed[r] = PresentCurrent =>
              Rpcs(calls[r]) \cap {"CreateList", "UpdateListItems"} = {}
        /\ r \notin deleted => "DeleteList" \notin Rpcs(calls[r])

C10_Witness ==
    /\ "r1" \notin deleted
    /\ observed["r1"] = PresentStale
    /\ Len(calls["r1"]) = 2
    /\ calls["r1"][1].rpc = "GetList"
    /\ calls["r1"][2].rpc = "UpdateListItems"

\* C11: when every remote call succeeds and the reconciler keeps being
\* invoked, from some point on the remote list exists with the desired
\* items, every Observe returns PresentCurrent and neither Create nor
\* Update is called any more.
Converged ==
    /\ \A r \in DOMAIN cr :
          /\ remote[cr[r].name].exists
          /\ remote[cr[r].name].items = cr[r].listItems.elems
    /\ On("Observe") => last.ret.obs = PresentCurrent
    /\ last.op \notin {"Create", "Update"}

C11_Converges == <>[]Converged

\* C12: two records write the same list in any interleaving: a successful
\* UpdateListItems leaves the list with exactly the writer's whole desired
\* sequence, whoever wrote before; an update the service answers for an
\* existing list is not rejected; and the items of an existing list change
\* by nothing but a successful UpdateListItems, so they are always those of
\* the most recent one.
C12_LastWriterWins ==
    /\ []((On("Update") /\ last.out.err.isNil) =>
            /\ remote[last.before.name].exists
            /\ remote[last.before.name].items = last.before.listItems.elems)
    /\ []((On("Update") /\ Answered(last.out)
              /\ remote[last.before.name].exists) => last.out.err.isNil)
    /\ [][\A n \in Names :
            (remote[n].exists /\ remote'[n] # remote[n]) =>
                /\ last'.op = "Update"
                /\ last'.out.err.isNil
                /\ last'.before.name = n]_vars

\* r2 overwrote the list in a cycle that ran while r1's own cycle, which
\* also sent an update, had ended: the list holds r2's items.
C12_Witness ==
    /\ DOMAIN cr = Res
    /\ cr["r1"].listItems.elems = <<1>>
    /\ cr["r2"].listItems.elems = <<2>>
    /\ Len(calls["r1"]) = 2
    /\ calls["r1"][2].rpc = "UpdateListItems"
    /\ last.op = "Update" /\ last.mg = "r2" /\ last.out.err.isNil
    /\ remote["a"].items = <<2>>

\* C13: however many times Connect is called, at most one connection to the
\* remote service has been dialed and is open.
C13_OneConnection == conns <= 1

RpcOf(op) ==
    CASE op = "Observe" -> "GetList"
      [] op = "Create" -> "CreateList"
      [] op = "Update" -> "UpdateListItems"
      [] op = "Delete" -> "DeleteList"

\* C14: every Observe, Create, Update and Delete on a GrpcKind resource
\* issues exactly one remote call, of the matching kind and addressed to the
\* record's name, whether that call succeeds or fails.
C14_OneRemoteCall ==
    \A op \in {"Observe", "Create", "Update", "Delete"} :
        On(op) =>
            /\ Len(last.reqs) = 1
            /\ last.reqs[1].rpc = RpcOf(op)
            /\ last.reqs[1].name = last.before.name

\* An Update whose remote call failed: one UpdateListItems, no second try.
C14_Witness ==
    /\ On("Update")
    /\ ~last.out.err.isNil
    /\ Len(last.reqs) = 1
    /\ last.reqs[1].rpc = "UpdateListItems"

Ready(out) == ~out.resp.isNil /\ out.resp.status = "SUCCESS"

\* C15: Observe marks the resource ready exactly when GetList returned a
\* response with status "SUCCESS"; otherwise (list absent, lookup failed,
\* any other status) it leaves the conditions as they were, so an earlier
\* ready mark stays; no other field of the resource changes.
C15_ObserveReady ==
    On("Observe") =>
        cr[last.mg] = [last.before EXCEPT
                         !.available = IF Ready(last.out) THEN TRUE ELSE @]

\* A resource marked ready earlier is observed with another status and
\* stays ready.
C15_Witness ==
    /\ On("Observe")
    /\ last.before.available
    /\ ~last.out.resp.isNil
    /\ last.out.resp.status = "PENDING"
    /\ cr[last.mg].available

\* C16: after a Create whose CreateList succeeded the resource's observed
\* status is the status CreateList returned; after a Create whose CreateList
\* failed with an error that Create swallows it is what it was before.
C16_CreateStatus ==
    /\ (On("Create") /\ last.out.err.isNil) =>
          cr[last.mg].status = last.out.resp.status
    /\ (On("Create") /\ ~last.out.err.isNil /\ ~NotFoundClass(last.out.err)) =>
          cr[last.mg].status = last.before.status

\* A resource whose status an earlier Create recorded is created again, the
\* service refuses, and the recorded status stays.
C16_Witness ==
    /\ On("Create")
    /\ last.out.err = Err(ExistsMsg)
    /\ last.before.status = "PENDING"
    /\ cr[last.mg].status = "PENDING"

\* C17: a cancelled caller's context does not abort the remote call of
\* Create, Update or Delete, which ends as the service decides; the GetList
\* of Observe is aborted by it.
C17_Cancellation ==
    /\ (On("Create") \/ On("Update") \/ On("Delete")) =>
          last.out.err # Err(CanceledMsg)
    /\ (On("Observe") /\ last.ctx = "cancelled") =>
          /\ last.out.resp.isNil
          /\ last.out.err = Err(CanceledMsg)

\* Create was called with a cancelled context and the list was created all
\* the same.
C17_Witness ==
    /\ On("Create")
    /\ last.ctx = "cancelled"
    /\ last.out.err.isNil
    /\ remote[last.before.name].exists

\* C18: Create completes normally whatever CreateList comes to (success, an
\* error containing "does not exist", any other error): it never
\* dereferences a missing response.
C18_CreateCompletes == On("Create") => ~last.ret.panicked

\* C19: Observe issues GetList and nothing else, leaves the record's name,
\* description and items and the remote list as they were, and two Observe
\* calls in a row on one resource return the same.
C19_ObserveReadOnly ==
    /\ [](On("Observe") =>
            /\ \A i \in 1..Len(last.reqs) : last.reqs[i].rpc = "GetList"
            /\ cr[last.mg].name = last.before.name
            /\ cr[last.mg].description = last.before.description
            /\ cr[last.mg].listItems = last.before.listItems)
    /\ [][(last'.op = "Observe" /\ IsGrpcKind(last'.mg)) =>
              remote' = remote]_vars
    /\ [][(On("Observe") /\ last'.op = "Observe" /\ last'.mg = last.mg) =>
              last'.ret = last.ret]_vars

\* C20: a successful Create sends no items and leaves an empty list; when
\* the desired sequence is not empty, the Observe that follows Create
\* returns PresentStale, so PresentCurrent is reached only past an Update.
C20_CreateThenUpdate ==
    /\ []((On("Create") /\ last.out.err.isNil) =>
            /\ last.reqs[1].items = NilSlice
            /\ remote[last.before.name].exists
            /\ remote[last.before.name].items = <<>>)
    /\ [][(/\ On("Create") /\ last.out.err.isNil
           /\ last.before.listItems.elems # <<>>
           /\ last'.op = "Observe" /\ last'.mg = last.mg) =>
              (~last'.ret.panicked /\ last'.ret.obs = PresentStale)]_vars

====
